---- MODULE Spec2Model ----
(***************************************************************************)
(* Model of suduko_to_sat.py: the encoding of a 9x9 Sudoku grid as a CNF   *)
(* formula over the variables 1..729 and the decoding of a variable back   *)
(* to (row, column, number).                                               *)
(*                                                                         *)
(* Python lists are sequences.  A grid cell is None (the empty sequence)   *)
(* or a number d (the one-element sequence <<d>>), so that None is         *)
(* distinct from every number.  Python's // and % on a positive divisor    *)
(* are \div and % (both floor).                                            *)
(***************************************************************************)
EXTENDS Integers, Sequences, FiniteSets

VARIABLES
    op,          \* the function the caller invoked last ("idle" before any call)
    args,        \* the arguments of that call
    outcome,     \* "none" | "returned" | "raised": how the call ended
    variable,    \* result of get_variable / get_box_variable
    decoded,     \* result of get_row_col_num: <<row, column, number>>
    grid,        \* the grid the caller built
    cnf,         \* result of formulate_cnf_clauses(grid)
    assignment   \* set of variables the solver's answer makes true

vars == <<op, args, outcome, variable, decoded, grid, cnf, assignment>>

----------------------------------------------------------------------------
(* Python helpers *)

\* range(a, b) as a sequence: a, a+1, ..., b-1
Range(a, b) == [n \in 1..(IF b > a THEN b - a ELSE 0) |-> a + n - 1]

\* concatenation of a sequence of lists: what successive append/+ builds
RECURSIVE Flatten(_)
Flatten(ss) == IF ss = <<>> THEN <<>> ELSE Head(ss) \o Flatten(Tail(ss))

None == <<>>

----------------------------------------------------------------------------
(* Variable encoder *)

\* get_variable without the + 1 that keeps 0 out of the variables
get_variable_no_offset(row, column, number) ==
    row * 81 + column * 9 + (number - 1)

\* get_variable without the - 1 that makes number 1 the first of its cell
get_variable_off_by_one(row, column, number) ==
    row * 81 + column * 9 + number + 1

get_variable(row, column, number) ==
    row * 81 + column * 9 + (number - 1) + 1

\* get_box_variable with the box's row not scaled to the box height
get_box_variable_unscaled(box_num, index_in_box, number) ==
    LET box_row == box_num \div 3
        box_col == box_num % 3
        row_in_box == index_in_box \div 3
        col_in_box == index_in_box % 3
        x == box_row + row_in_box
        y == box_col * 3 + col_in_box
    IN  get_variable(x, y, number)

get_box_variable(box_num, index_in_box, number) ==
    LET box_row == box_num \div 3
        box_col == box_num % 3
        row_in_box == index_in_box \div 3
        col_in_box == index_in_box % 3
        x == box_row * 3 + row_in_box
        y == box_col * 3 + col_in_box
    IN  get_variable(x, y, number)

\* get_row_col_num without undoing the + 1 of get_variable
get_row_col_num_no_undo(v) ==
    LET number == (v % 9) + 1
        v1 == v \div 9
        column == v1 % 9
        v2 == v1 \div 9
        row == v2
    IN  <<row, column, number>>

get_row_col_num(v) ==
    LET v0 == v - 1
        number == (v0 % 9) + 1
        v1 == v0 \div 9
        column == v1 % 9
        v2 == v1 \div 9
        row == v2
    IN  <<row, column, number>>

----------------------------------------------------------------------------
(* Clause generator *)

generate_row_clauses ==
    LET atLeast ==
            Flatten([a \in 1..9 |-> LET i == Range(1, 10)[a] IN
              Flatten([b \in 1..9 |-> LET j == Range(0, 9)[b] IN
                << [c \in 1..9 |-> get_variable(j, Range(0, 9)[c], i)] >> ])])
        atMost ==
            Flatten([a \in 1..9 |-> LET i == Range(1, 10)[a] IN
              Flatten([b \in 1..9 |-> LET j == Range(0, 9)[b] IN
                Flatten([c \in 1..9 |-> LET k == Range(0, 9)[c] IN
                  Flatten([e \in 1..Len(Range(k + 1, 9)) |->
                    LET l == Range(k + 1, 9)[e] IN
                    IF k # l
                    THEN << <<-get_variable(j, k, i), -get_variable(j, l, i)>> >>
                    ELSE <<>> ])])])])
    IN  atLeast \o atMost

generate_column_clauses ==
    LET atLeast ==
            Flatten([a \in 1..9 |-> LET i == Range(1, 10)[a] IN
              Flatten([b \in 1..9 |-> LET j == Range(0, 9)[b] IN
                << [c \in 1..9 |-> get_variable(Range(0, 9)[c], j, i)] >> ])])
        atMost ==
            Flatten([a \in 1..9 |-> LET i == Range(1, 10)[a] IN
              Flatten([b \in 1..9 |-> LET j == Range(0, 9)[b] IN
                Flatten([c \in 1..9 |-> LET k == Range(0, 9)[c] IN
                  Flatten([e \in 1..Len(Range(k + 1, 9)) |->
                    LET l == Range(k + 1, 9)[e] IN
                    IF k # l
                    THEN << <<-get_variable(k, j, i), -get_variable(l, j, i)>> >>
                    ELSE <<>> ])])])])
    IN  atLeast \o atMost

generate_box_clauses ==
    LET atLeast ==
            Flatten([a \in 1..9 |-> LET i == Range(1, 10)[a] IN
              Flatten([b \in 1..9 |-> LET j == Range(0, 9)[b] IN
                << [c \in 1..9 |-> get_box_variable(j, Range(0, 9)[c], i)] >> ])])
        atMost ==
            Flatten([a \in 1..9 |-> LET i == Range(1, 10)[a] IN
              Flatten([b \in 1..9 |-> LET j == Range(0, 9)[b] IN
                Flatten([c \in 1..9 |-> LET k == Range(0, 9)[c] IN
                  Flatten([e \in 1..Len(Range(k + 1, 9)) |->
                    LET l == Range(k + 1, 9)[e] IN
                    IF k # l
                    THEN << <<-get_box_variable(j, k, i), -get_box_variable(j, l, i)>> >>
                    ELSE <<>> ])])])])
    IN  atLeast \o atMost

\* generate_initial_assignment_clauses with row and column exchanged
generate_initial_assignment_clauses_transposed(g) ==
    Flatten([a \in 1..Len(g) |-> LET i == a - 1  row == g[a] IN
      Flatten([b \in 1..Len(row) |-> LET j == b - 1  element == row[b] IN
        IF element = None
        THEN <<>>
        ELSE << <<get_variable(j, i, element[1])>> >> ])])

\* enumerate(grid) / enumerate(row): i, j count from 0 over whatever the
\* caller passed; nothing checks that there are 9 rows of 9 elements
generate_initial_assignment_clauses(g) ==
    Flatten([a \in 1..Len(g) |-> LET i == a - 1  row == g[a] IN
      Flatten([b \in 1..Len(row) |-> LET j == b - 1  element == row[b] IN
        IF element = None
        THEN <<>>
        ELSE << <<get_variable(i, j, element[1])>> >> ])])

\* generate_single_assignment_clauses with the second number starting at k
generate_single_assignment_clauses_from_k ==
    LET atLeast ==
            Flatten([a \in 1..9 |-> LET i == Range(0, 9)[a] IN
              Flatten([b \in 1..9 |-> LET j == Range(0, 9)[b] IN
                << [c \in 1..9 |-> get_variable(i, j, Range(1, 10)[c])] >> ])])
        atMost ==
            Flatten([a \in 1..9 |-> LET i == Range(0, 9)[a] IN
              Flatten([b \in 1..9 |-> LET j == Range(0, 9)[b] IN
                Flatten([c \in 1..9 |-> LET k == Range(1, 10)[c] IN
                  Flatten([e \in 1..Len(Range(k, 10)) |->
                    LET l == Range(k, 10)[e] IN
                    << <<-get_variable(i, j, k), -get_variable(i, j, l)>> >> ])])])])
    IN  atLeast \o atMost

generate_single_assignment_clauses ==
    LET atLeast ==
            Flatten([a \in 1..9 |-> LET i == Range(0, 9)[a] IN
              Flatten([b \in 1..9 |-> LET j == Range(0, 9)[b] IN
                << [c \in 1..9 |-> get_variable(i, j, Range(1, 10)[c])] >> ])])
        atMost ==
            Flatten([a \in 1..9 |-> LET i == Range(0, 9)[a] IN
              Flatten([b \in 1..9 |-> LET j == Range(0, 9)[b] IN
                Flatten([c \in 1..9 |-> LET k == Range(1, 10)[c] IN
                  Flatten([e \in 1..Len(Range(k + 1, 10)) |->
                    LET l == Range(k + 1, 10)[e] IN
                    << <<-get_variable(i, j, k), -get_variable(i, j, l)>> >> ])])])])
    IN  atLeast \o atMost

\* formulate_cnf_clauses that forgets the grid's fixed cells
formulate_cnf_clauses_no_initial(g) ==
    generate_row_clauses \o generate_column_clauses \o generate_box_clauses
        \o generate_single_assignment_clauses

\* formulate_cnf_clauses with the last two families exchanged
formulate_cnf_clauses_initial_last(g) ==
    generate_row_clauses \o generate_column_clauses \o generate_box_clauses
        \o generate_single_assignment_clauses \o generate_initial_assignment_clauses(g)

formulate_cnf_clauses(g) ==
    generate_row_clauses \o generate_column_clauses \o generate_box_clauses
        \o generate_initial_assignment_clauses(g) \o generate_single_assignment_clauses

----------------------------------------------------------------------------
(* Bounds of the inputs the model draws *)

\* how far outside the documented ranges the callers' coordinates reach
Slack == 1
\* number of candidate fixed cells the caller's grids are built from
MaxClues == 4
\* number of digit relabellings of the reference solution the solver may answer
MaxShift == 1
\* the solver's answer may deviate from a reference answer on variables 1..MaxToggleVar
MaxToggleVar == 9

----------------------------------------------------------------------------
(* Inputs *)

Coords == (0 - Slack)..(8 + Slack)
Numbers == (1 - Slack)..(9 + Slack)
Variables == (1 - Slack)..(729 + Slack)

ValidCoords == 0..8
ValidNumbers == 1..9
ValidVariables == 1..729

\* a completed Sudoku: the digits of cell (r, c), relabelled cyclically by s
PatternDigit(r, c, s) == ((3 * (r % 3) + (r \div 3) + c + 4 + s) % 9) + 1
\* a Latin square that repeats digits inside the boxes
LatinDigit(r, c) == ((r + c) % 9) + 1
\* rows and boxes hold every digit once, columns repeat digits
BandDigit(r, c) == ((3 * (r % 3) + c) % 9) + 1
\* columns and boxes hold every digit once, rows repeat digits
StackDigit(r, c) == BandDigit(c, r)

\* the n-th candidate fixed cell, <<row, column>>; the first is (0, 0)
ClueCell(n) == LET p == ((n - 1) * 32) % 81 IN <<p \div 9, p % 9>>

EmptyGrid == [a \in 1..9 |-> [b \in 1..9 |-> None]]

\* the grid whose fixed cells are the candidate cells chosen by M, with the
\* digits of the reference solution; ClueCell(1) = (0, 0) holds 5
GridOf(M) ==
    [a \in 1..9 |-> [b \in 1..9 |->
        IF \E n \in M : ClueCell(n) = <<a - 1, b - 1>>
        THEN <<PatternDigit(a - 1, b - 1, 0)>>
        ELSE None]]

N == None
SampleGrid ==
    << <<N, N, N, <<3>>, <<2>>, N, N, N, <<4>> >>,
       <<N, <<8>>, <<1>>, N, N, N, N, N, N>>,
       <<N, N, N, N, N, N, N, N, N>>,
       <<N, N, N, <<1>>, N, <<7>>, N, <<5>>, N>>,
       << <<2>>, N, N, N, N, N, N, N, N>>,
       <<N, N, N, N, N, <<8>>, N, N, N>>,
       << <<4>>, <<2>>, N, N, <<6>>, N, N, N, N>>,
       <<N, N, N, N, N, N, <<9>>, <<1>>, N>>,
       << <<6>>, N, N, N, N, N, <<3>>, N, N>> >>

WellFormed(g) ==
    /\ Len(g) = 9
    /\ \A a \in 1..Len(g) :
        /\ Len(g[a]) = 9
        /\ \A b \in 1..Len(g[a]) : g[a][b] = None \/ g[a][b][1] \in ValidNumbers

WellFormedGrids == {GridOf(M) : M \in SUBSET (1..MaxClues)} \cup {SampleGrid}

\* grids that are not 9 rows of 9 cells: a row missing, a row too many, a
\* row one cell short, a row one cell long
Misshapen(g) ==
    { SubSeq(g, 1, 8),
      Append(g, g[1]),
      [g EXCEPT ![1] = Tail(@)],
      [g EXCEPT ![1] = Append(@, <<1>>)] }

MalformedGrids == Misshapen(EmptyGrid) \cup Misshapen(GridOf(1..MaxClues))

Grids == WellFormedGrids \cup MalformedGrids

SolutionAssignment(s) ==
    {get_variable(r, c, PatternDigit(r, c, s)) : r \in ValidCoords, c \in ValidCoords}
LatinAssignment ==
    {get_variable(r, c, LatinDigit(r, c)) : r \in ValidCoords, c \in ValidCoords}

BandAssignment ==
    {get_variable(r, c, BandDigit(r, c)) : r \in ValidCoords, c \in ValidCoords}
StackAssignment ==
    {get_variable(r, c, StackDigit(r, c)) : r \in ValidCoords, c \in ValidCoords}
\* the reference solution with number 2 moved onto the cells that hold 1:
\* every number is once in each row, column and box, but the cells of 1 hold
\* two numbers and the former cells of 2 hold none
DoubledAssignment ==
    {get_variable(rc[1], rc[2], PatternDigit(rc[1], rc[2], 0)) :
        rc \in {x \in ValidCoords \X ValidCoords : PatternDigit(x[1], x[2], 0) # 2}}
    \cup {get_variable(rc[1], rc[2], 2) :
        rc \in {x \in ValidCoords \X ValidCoords : PatternDigit(x[1], x[2], 0) = 1}}

SeedAssignments ==
    {SolutionAssignment(s) : s \in 0..MaxShift}
        \cup {LatinAssignment, BandAssignment, StackAssignment, DoubledAssignment, {}}

\* symmetric difference: the variables of T change their truth value
Toggle(a, T) == (a \ T) \cup (T \ a)

Assignments ==
    {Toggle(a, T) : a \in SeedAssignments,
                    T \in {X \in SUBSET (1..MaxToggleVar) : Cardinality(X) <= 2}}

----------------------------------------------------------------------------
(* The caller's steps *)

Init ==
    /\ op = "idle"
    /\ args = <<>>
    /\ outcome = "none"
    /\ variable = 0
    /\ decoded = <<>>
    /\ grid = <<>>
    /\ cnf = <<>>
    /\ assignment = {}

CallGetVariable(row, column, number) ==
    /\ op = "idle"
    /\ op' = "get_variable"
    /\ args' = <<row, column, number>>
    /\ variable' = get_variable(row, column, number)
    /\ outcome' = "returned"
    /\ UNCHANGED <<decoded, grid, cnf, assignment>>

CallGetBoxVariable(box_num, index_in_box, number) ==
    /\ op = "idle"
    /\ op' = "get_box_variable"
    /\ args' = <<box_num, index_in_box, number>>
    /\ variable' = get_box_variable(box_num, index_in_box, number)
    /\ outcome' = "returned"
    /\ UNCHANGED <<decoded, grid, cnf, assignment>>

CallGetRowColNum(v) ==
    /\ op = "idle"
    /\ op' = "get_row_col_num"
    /\ args' = <<v>>
    /\ decoded' = get_row_col_num(v)
    /\ outcome' = "returned"
    /\ UNCHANGED <<variable, grid, cnf, assignment>>

\* the caller decodes the variable it has just encoded
DecodeEncoded ==
    /\ op = "get_variable"
    /\ outcome = "returned"
    /\ op' = "round_trip"
    /\ decoded' = get_row_col_num(variable)
    /\ UNCHANGED <<args, outcome, variable, grid, cnf, assignment>>

BuildGrid(g) ==
    /\ op = "idle"
    /\ op' = "grid"
    /\ grid' = g
    /\ UNCHANGED <<args, outcome, variable, decoded, cnf, assignment>>

Formulate ==
    /\ op = "grid"
    /\ op' = "formulate_cnf_clauses"
    /\ args' = <<grid>>
    /\ cnf' = formulate_cnf_clauses(grid)
    /\ outcome' = "returned"
    /\ UNCHANGED <<variable, decoded, grid, assignment>>

\* the solver's answer: the positive integers of input.txt
ReadAssignment(a) ==
    /\ op = "formulate_cnf_clauses"
    /\ outcome = "returned"
    /\ op' = "solved"
    /\ assignment' = a
    /\ UNCHANGED <<args, outcome, variable, decoded, grid, cnf>>

Next ==
    \/ \E row \in Coords, column \in Coords, number \in Numbers :
           CallGetVariable(row, column, number)
    \/ \E box_num \in Coords, index_in_box \in Coords, number \in Numbers :
           CallGetBoxVariable(box_num, index_in_box, number)
    \/ \E v \in Variables : CallGetRowColNum(v)
    \/ DecodeEncoded
    \/ \E g \in Grids : BuildGrid(g)
    \/ Formulate
    \/ \E a \in Assignments : ReadAssignment(a)

Spec == Init /\ [][Next]_vars

----------------------------------------------------------------------------
(* What the clauses and the solver's answer mean *)

\* a literal v > 0 holds when v is true, -v when v is false; 0 is no literal
LiteralHolds(a, lit) ==
    IF lit > 0 THEN lit \in a ELSE IF lit < 0 THEN (0 - lit) \notin a ELSE FALSE

Satisfies(a, clauses) ==
    \A n \in 1..Len(clauses) :
        \E m \in 1..Len(clauses[n]) : LiteralHolds(a, clauses[n][m])

\* the (row, column, number) triples the answer makes true, read the way
\* the caller reads them
TrueTriples(a) == {get_row_col_num(v) : v \in a}

BoxOf(r, c) == (r \div 3) * 3 + (c \div 3)

FixedCells(g) ==
    {rc \in ValidCoords \X ValidCoords : g[rc[1] + 1][rc[2] + 1] # None}

FixedDigit(g, rc) == g[rc[1] + 1][rc[2] + 1][1]

ValidSolution(a, g) ==
    LET T == TrueTriples(a) IN
    /\ a \subseteq ValidVariables
    /\ \A r \in ValidCoords, c \in ValidCoords :
           Cardinality({d \in ValidNumbers : <<r, c, d>> \in T}) = 1
    /\ \A r \in ValidCoords, d \in ValidNumbers :
           Cardinality({c \in ValidCoords : <<r, c, d>> \in T}) = 1
    /\ \A c \in ValidCoords, d \in ValidNumbers :
           Cardinality({r \in ValidCoords : <<r, c, d>> \in T}) = 1
    /\ \A b \in ValidCoords, d \in ValidNumbers :
           Cardinality({rc \in ValidCoords \X ValidCoords :
                           BoxOf(rc[1], rc[2]) = b /\ <<rc[1], rc[2], d>> \in T}) = 1
    /\ \A rc \in FixedCells(g) : <<rc[1], rc[2], FixedDigit(g, rc)>> \in T

----------------------------------------------------------------------------
(* Claims *)

\* C1: for a well-formed grid, the solver's answer satisfies every clause of
\* formulate_cnf_clauses(grid) exactly when it is a valid Sudoku solution
\* (one digit per cell, every digit once per row, column and box) that
\* agrees with the grid's fixed cells.
C1_SatisfiesIffValidSolution ==
    (op = "solved" /\ WellFormed(grid)) =>
        (Satisfies(assignment, cnf) <=> ValidSolution(assignment, grid))

C1_Witness ==
    /\ op = "solved"
    /\ WellFormed(grid)
    /\ Cardinality(FixedCells(grid)) = MaxClues
    /\ Satisfies(assignment, cnf)
    /\ ValidSolution(assignment, grid)

ValidTriple(t) ==
    t[1] \in ValidCoords /\ t[2] \in ValidCoords /\ t[3] \in ValidNumbers

\* C2: for row, column in 0..8 and number in 1..9, decoding the variable
\* get_variable returned gives back exactly (row, column, number).
C2_DecodeInvertsEncode ==
    (op = "round_trip" /\ ValidTriple(args)) => decoded = args

C2_Witness ==
    /\ op = "round_trip"
    /\ args = <<4, 4, 9>>
    /\ variable = 369
    /\ decoded = <<4, 4, 9>>

\* C3: get_variable maps the valid triples one-to-one onto 1..729: its
\* result is in 1..729 (never 0), no other valid triple gives the same
\* result, and every variable of 1..729 is the result of a valid triple.
C3_GetVariableBijection ==
    /\ (op = "get_variable" /\ ValidTriple(args)) =>
        /\ variable \in ValidVariables
        /\ variable # 0
        /\ \A r \in ValidCoords, c \in ValidCoords, d \in ValidNumbers :
               get_variable(r, c, d) = variable => <<r, c, d>> = args
    /\ (op = "get_row_col_num" /\ args[1] \in ValidVariables) =>
        \E r \in ValidCoords, c \in ValidCoords, d \in ValidNumbers :
            get_variable(r, c, d) = args[1]

C3_Witness ==
    /\ op = "get_variable"
    /\ args = <<8, 8, 9>>
    /\ variable = 729

\* C4: for box, index in 0..8 and number in 1..9, get_box_variable is
\* get_variable of row (box div 3)*3 + index div 3 and column
\* (box mod 3)*3 + index mod 3; no other (box, index) reaches that cell, and
\* every cell is reached by some (box, index).
C4_BoxAddressing ==
    /\ (op = "get_box_variable" /\ ValidTriple(args)) =>
        /\ variable = get_variable((args[1] \div 3) * 3 + (args[2] \div 3),
                                   (args[1] % 3) * 3 + (args[2] % 3), args[3])
        /\ variable \in ValidVariables
        /\ \A b \in ValidCoords, k \in ValidCoords :
               get_box_variable(b, k, args[3]) = variable => <<b, k>> = <<args[1], args[2]>>
    /\ (op = "get_variable" /\ ValidTriple(args)) =>
        \E b \in ValidCoords, k \in ValidCoords :
            get_box_variable(b, k, args[3]) = variable

C4_Witness ==
    /\ op = "get_box_variable"
    /\ args = <<5, 7, 3>>
    /\ variable = get_variable(5, 7, 3)
    /\ decoded = <<>>

\* the clauses of one family: 81 clauses of 9 positive literals, then 2916
\* clauses of 2 negative literals
FamilyShape(clauses) ==
    /\ Len(clauses) = 2997
    /\ \A n \in 1..81 :
        Len(clauses[n]) = 9 /\ \A m \in 1..9 : clauses[n][m] > 0
    /\ \A n \in 82..2997 :
        Len(clauses[n]) = 2 /\ \A m \in 1..2 : clauses[n][m] < 0

\* C5: for the grid without fixed cells each of the row, column, box and
\* single-assignment families is 81 coverage clauses followed by 2916
\* exclusion clauses, there is no initial-assignment clause, and
\* formulate_cnf_clauses returns 11988 clauses.
C5_ClauseCounts ==
    (op = "formulate_cnf_clauses" /\ grid = EmptyGrid) =>
        /\ FamilyShape(generate_row_clauses)
        /\ FamilyShape(generate_column_clauses)
        /\ FamilyShape(generate_box_clauses)
        /\ FamilyShape(generate_single_assignment_clauses)
        /\ Len(generate_initial_assignment_clauses(grid)) = 0
        /\ Len(cnf) = 11988
        /\ \A f \in 0..3 : FamilyShape(SubSeq(cnf, f * 2997 + 1, (f + 1) * 2997))

C5_Witness ==
    /\ op = "formulate_cnf_clauses"
    /\ grid = EmptyGrid
    /\ Len(cnf) = 11988
    /\ cnf[11988] = <<-728, -729>>

\* number of fixed cells before cell rc in row-major order
FixedBefore(g, rc) ==
    Cardinality({x \in FixedCells(g) : x[1] * 9 + x[2] < rc[1] * 9 + rc[2]})

\* one unit clause per fixed cell, in row-major order
IsRowMajorUnits(clauses, g) ==
    /\ Len(clauses) = Cardinality(FixedCells(g))
    /\ \A rc \in FixedCells(g) :
        clauses[FixedBefore(g, rc) + 1] = <<get_variable(rc[1], rc[2], FixedDigit(g, rc))>>

UnitClauses(clauses) ==
    LET IsUnit(cl) == Len(cl) = 1 IN SelectSeq(clauses, IsUnit)

NoUnitInFamilies ==
    /\ UnitClauses(generate_row_clauses) = <<>>
    /\ UnitClauses(generate_column_clauses) = <<>>
    /\ UnitClauses(generate_box_clauses) = <<>>
    /\ UnitClauses(generate_single_assignment_clauses) = <<>>

\* C6 as stated: the initial-assignment clauses are the unit clauses of the
\* fixed cells in row-major order, no other family has a unit clause, and
\* the grid whose only fixed cell is (0,0)=5 yields the single clause [1].
C6_AsStated ==
    (op = "formulate_cnf_clauses" /\ WellFormed(grid)) =>
        /\ IsRowMajorUnits(generate_initial_assignment_clauses(grid), grid)
        /\ NoUnitInFamilies
        /\ UnitClauses(cnf) = generate_initial_assignment_clauses(grid)
        /\ grid = GridOf({1}) =>
               generate_initial_assignment_clauses(grid) = << <<1>> >>

\* C6 (amended): the initial-assignment clauses are the unit clauses of the
\* fixed cells in row-major order, they are the only unit clauses of the
\* whole formula, and the grid whose only fixed cell is (0,0)=5 yields the
\* single clause [5].
C6_InitialAssignmentUnits ==
    (op = "formulate_cnf_clauses" /\ WellFormed(grid)) =>
        /\ IsRowMajorUnits(generate_initial_assignment_clauses(grid), grid)
        /\ NoUnitInFamilies
        /\ UnitClauses(cnf) = generate_initial_assignment_clauses(grid)
        /\ grid = GridOf({1}) =>
               /\ FixedCells(grid) = {<<0, 0>>}
               /\ FixedDigit(grid, <<0, 0>>) = 5
               /\ generate_initial_assignment_clauses(grid) = << <<5>> >>

C6_Witness ==
    /\ op = "formulate_cnf_clauses"
    /\ grid = GridOf({1})
    /\ UnitClauses(cnf) = << <<5>> >>

\* C7: the result is the row, column, box, initial-assignment and
\* single-assignment clauses in this order, nothing dropped or moved: the
\* n initial-assignment clauses are at 8992 .. 8991+n and the
\* single-assignment clauses are the last 2997.
C7_FamilyOrder ==
    (op = "formulate_cnf_clauses" /\ WellFormed(grid)) =>
        LET n == Cardinality(FixedCells(grid)) IN
        /\ Len(cnf) = 11988 + n
        /\ SubSeq(cnf, 1, 2997) = generate_row_clauses
        /\ SubSeq(cnf, 2998, 5994) = generate_column_clauses
        /\ SubSeq(cnf, 5995, 8991) = generate_box_clauses
        /\ SubSeq(cnf, 8992, 8991 + n) = generate_initial_assignment_clauses(grid)
        /\ IsRowMajorUnits(SubSeq(cnf, 8992, 8991 + n), grid)
        /\ SubSeq(cnf, 8992 + n, Len(cnf)) = generate_single_assignment_clauses

C7_Witness ==
    /\ op = "formulate_cnf_clauses"
    /\ grid = GridOf(1..MaxClues)
    /\ cnf[8992] = <<5>>
    /\ Len(cnf[8991]) = 2
    /\ Len(cnf[8992 + MaxClues]) = 9

\* C8 as stated: a grid that is not 9 rows of 9 cells is rejected with an
\* error and no clause set is returned.
C8_MalformedGridRejected ==
    (op = "formulate_cnf_clauses" /\ ~WellFormed(grid)) =>
        (outcome = "raised" /\ cnf = <<>>)

\* C9 as stated: a coordinate, number or variable outside its range is
\* rejected with an error instead of a value being returned.
C9_OutOfRangeRejected ==
    /\ (op \in {"get_variable", "get_box_variable"} /\ ~ValidTriple(args)) =>
        outcome = "raised"
    /\ (op = "get_row_col_num" /\ args[1] \notin ValidVariables) =>
        outcome = "raised"

\* C10: for a well-formed grid every literal of every returned clause is
\* non-zero with absolute value in 1..729, and decodes to a row and column
\* in 0..8 and a number in 1..9.
C10_LiteralsInRange ==
    (op = "formulate_cnf_clauses" /\ WellFormed(grid)) =>
        \A n \in 1..Len(cnf) : \A m \in 1..Len(cnf[n]) :
            LET lit == cnf[n][m]
                v == IF lit < 0 THEN 0 - lit ELSE lit
            IN  /\ lit # 0
                /\ v \in ValidVariables
                /\ ValidTriple(get_row_col_num(v))

C10_Witness ==
    /\ op = "formulate_cnf_clauses"
    /\ grid = SampleGrid
    /\ \E n \in 1..Len(cnf) : cnf[n] = <<-1, -2>>
    /\ cnf[Len(cnf)] = <<-728, -729>>
====
